---- MODULE Spec2Model ----
(***************************************************************************)
(* Phone status tracker backend (src/main.py): the HTTP handlers over the  *)
(* single collection "phonenumber", as a state machine.  One action per    *)
(* endpoint; each action is the whole handler, from the request-shape      *)
(* validation FastAPI runs before the body to the response returned.       *)
(*                                                                         *)
(* database.py (db, create_document, get_documents) and schemas.py         *)
(* (PhoneNumber) are imported by main.py but are not part of the source    *)
(* tree; they are modelled from the specification and marked so below.     *)
(***************************************************************************)
EXTENDS Integers, Sequences, FiniteSets, TLC

(***************************************************************************)
(* Bounds of the model.                                                    *)
(***************************************************************************)
\* ids the store hands out in one behaviour (ObjectIds are never reused)
MaxId == 2
\* instants of the wall clock
MaxClock == 1
\* items of one bulk payload
MaxBulk == 2

(***************************************************************************)
(* Program constants.                                                      *)
(***************************************************************************)
\* limit: Optional[int] = Query(500, ge=1, le=5000)
DefaultLimit == 500
MinLimit == 1
MaxLimit == 5000

\* Literal["unknown", "has_fb", "no_fb", "review"]
Statuses == {"unknown", "has_fb", "no_fb", "review"}
DefaultStatus == "unknown"

(***************************************************************************)
(* Values.  A string is a sequence of characters, so that the substring    *)
(* search of list/export is computed and not assumed.  An optional value   *)
(* is Absent (the key is not in the request), Null (JSON null / None) or   *)
(* Val(x).                                                                 *)
(***************************************************************************)
Absent == <<"absent">>
Null == <<"null">>
Val(x) == <<"val", x>>
IsVal(o) == o[1] = "val"
Get(o) == o[2]

Range(s) == {s[i] : i \in 1..Len(s)}

\* phone strings of the requests: "55", "+1" and the empty string
P55 == <<"5", "5">>
PPlus == <<"+", "1">>
PEmpty == <<>>
\* country "U", note "u5"
CountryU == <<"U">>
NoteU5 == <<"u", "5">>

(***************************************************************************)
(* Identifiers.  The store assigns ObjectIds; the model numbers them.  The *)
(* client sees and sends strings: str(oid) is the 24-digit hex form, and   *)
(* ObjectId(s) raises on any string that is not such a form.               *)
(***************************************************************************)
OidStr(n) == <<"hex24", n>>
MalformedId == <<"not-an-id", 0>>
AnyString_ObjectIdParses(s) == TRUE

\* ObjectId(item_id) succeeds
ObjectIdParses(s) == s[1] = "hex24"
ObjectIdOf(s) == s[2]

(***************************************************************************)
(* State.                                                                  *)
(***************************************************************************)
VARIABLES
    db,        \* TRUE: the store handle was established at start-up (db is not None)
    bson,      \* TRUE: "from bson import ObjectId" succeeded (ObjectId is not None)
    store,     \* the collection: documents in the store's natural (insertion) order
    nextId,    \* the next ObjectId the store assigns
    clock,     \* datetime.now(timezone.utc)
    last       \* the response to the latest request

vars == <<db, bson, store, nextId, clock, last>>

\* What a handler answers: the HTTP status code, the error detail, the count
\* (updated / deleted / count / number of items or rows), the ids of the body
\* and the number of store operations the handler performed.
Resp(op, code, detail, n, ids, calls) ==
    [op |-> op, code |-> code, detail |-> detail, n |-> n, ids |-> ids, calls |-> calls]

DbUnavailable(op) == Resp(op, 500, "Database not available", 0, <<>>, 0)
ObjectIdUnavailable(op) == Resp(op, 500, "ObjectId not available", 0, <<>>, 0)
InvalidId(op) == Resp(op, 400, "Invalid id", 0, <<>>, 0)
\* FastAPI's answer to a request that fails the request-shape validation
Unprocessable(op) == Resp(op, 422, "validation", 0, <<>>, 0)
\* an exception no handler catches: Internal Server Error
Unhandled(op, calls) == Resp(op, 500, "Internal Server Error", 0, <<>>, calls)

(***************************************************************************)
(* Request-shape validation: the pydantic models of main.py.  FastAPI      *)
(* answers 422 and never calls the handler when the body does not parse.   *)
(***************************************************************************)
Fields == {"phone", "country", "status", "note"}

\* class PhoneIn: phone is required; status is one of the four literals, and
\* None is not one of them; country and note may be omitted or null.
PhoneInValid(raw) ==
    /\ IsVal(raw.phone)
    /\ \/ raw.status = Absent
       \/ IsVal(raw.status) /\ Get(raw.status) \in Statuses

\* the parsed PhoneIn, which is also item.model_dump()
PhoneIn(raw) ==
    [phone   |-> raw.phone,
     country |-> IF IsVal(raw.country) THEN raw.country ELSE Null,
     status  |-> IF raw.status = Absent THEN Val(DefaultStatus) ELSE raw.status,
     note    |-> IF IsVal(raw.note) THEN raw.note ELSE Null]

\* class PhoneUpdate: every field Optional, default None; status, when given
\* and not null, is one of the four literals.
ShapeAnyStatus_PhoneUpdateValid(raw) ==
    TRUE

PhoneUpdateValid(raw) ==
    \/ raw.status \in {Absent, Null}
    \/ IsVal(raw.status) /\ Get(raw.status) \in Statuses

\* the parsed PhoneUpdate: an omitted field and a null field are both None
PhoneUpdate(raw) ==
    [k \in Fields |-> IF IsVal(raw[k]) THEN raw[k] ELSE Null]

\* class BulkPhones: items: List[PhoneIn]; one bad item fails the whole body
BulkPhonesValid(raws) ==
    \A i \in 1..Len(raws) : PhoneInValid(raws[i])

BulkPhones(raws) ==
    [i \in 1..Len(raws) |-> PhoneIn(raws[i])]

(***************************************************************************)
(* schemas.PhoneNumber, the second validation before an insert.  The       *)
(* specification says only that it is independent of and stricter than the *)
(* request shape; here it refuses an empty phone string, which PhoneIn     *)
(* accepts.                                                                *)
(***************************************************************************)
PhoneNumberSchema(item) ==
    Len(Get(item.phone)) > 0

(***************************************************************************)
(* The store (pymongo on one collection).                                  *)
(***************************************************************************)
Lower(c) == IF c = "U" THEN "u" ELSE c

\* {"$regex": q, "$options": "i"} on the fragment of the regular expressions
\* the requests use: a literal character, or a literal character followed by
\* one "+" (one or more).  A "+" with nothing to repeat is a pattern the
\* store refuses.
RECURSIVE RegexValidFrom(_, _)
RegexValidFrom(q, i) ==
    IF i > Len(q) THEN TRUE
    ELSE IF q[i] = "+" THEN FALSE
    ELSE IF i + 1 <= Len(q) /\ q[i + 1] = "+" THEN RegexValidFrom(q, i + 2)
    ELSE RegexValidFrom(q, i + 1)

RegexValid(q) == RegexValidFrom(q, 1)

\* the pattern from position i matches s from position j on
RECURSIVE MatchAt(_, _, _, _)
MatchAt(q, i, s, j) ==
    IF i > Len(q) THEN TRUE
    ELSE IF i + 1 <= Len(q) /\ q[i + 1] = "+"
    THEN \E k \in 1..(Len(s) - j + 1) :
            /\ \A m \in j..(j + k - 1) : Lower(s[m]) = Lower(q[i])
            /\ MatchAt(q, i + 2, s, j + k)
    ELSE /\ j <= Len(s)
         /\ Lower(s[j]) = Lower(q[i])
         /\ MatchAt(q, i + 1, s, j + 1)

\* unanchored search; a null field matches no pattern
RegexSearch(q, field) ==
    /\ IsVal(field)
    /\ \E j \in 1..(Len(Get(field)) + 1) : MatchAt(q, 1, Get(field), j)

\* flt = {}; if status: flt["status"] = status; if q: flt["$or"] = [...]
BuildFilter(status, q) ==
    [status |-> IF IsVal(status) /\ Get(status) # "" THEN status ELSE Absent,
     q      |-> IF IsVal(q) /\ Len(Get(q)) > 0 THEN q ELSE Absent]

\* a document satisfies the filter: status by equality, $or over three fields
Matches(d, flt) ==
    /\ flt.status = Absent \/ d.status = flt.status
    /\ \/ flt.q = Absent
       \/ RegexSearch(Get(flt.q), d.phone)
       \/ RegexSearch(Get(flt.q), d.note)
       \/ RegexSearch(Get(flt.q), d.country)

\* the store refuses the query (OperationFailure)
FilterRaises(flt) == IsVal(flt.q) /\ ~RegexValid(Get(flt.q))

\* db[COLLECTION].find(flt), in natural order
Find(st, flt) == SelectSeq(st, LAMBDA d : Matches(d, flt))

HasId(st, oid) == \E i \in 1..Len(st) : st[i].id = oid
IndexOf(st, oid) == CHOOSE i \in 1..Len(st) : st[i].id = oid
DocOf(st, oid) == st[IndexOf(st, oid)]

\* $set: a key of the update document replaces the field, the others stay
ApplySet(d, upd) ==
    [id         |-> d.id,
     phone      |-> IF upd["phone"] = Absent THEN d.phone ELSE upd["phone"],
     country    |-> IF upd["country"] = Absent THEN d.country ELSE upd["country"],
     status     |-> IF upd["status"] = Absent THEN d.status ELSE upd["status"],
     note       |-> IF upd["note"] = Absent THEN d.note ELSE upd["note"],
     created_at |-> d.created_at,
     updated_at |-> IF upd["updated_at"] = Absent THEN d.updated_at
                    ELSE Get(upd["updated_at"])]

UpdateAll_update_one(st, oid, upd) ==
    [store |-> [i \in 1..Len(st) |-> ApplySet(st[i], upd)],
     modified_count |-> IF HasId(st, oid) THEN 1 ELSE 0]

\* db[COLLECTION].update_one({"_id": oid}, {"$set": upd}): no upsert; the
\* modified count is 1 only when a document matched and the write changed it
update_one(st, oid, upd) ==
    IF HasId(st, oid)
    THEN LET i == IndexOf(st, oid)
             d == ApplySet(st[i], upd)
         IN [store |-> [st EXCEPT ![i] = d],
             modified_count |-> IF d = st[i] THEN 0 ELSE 1]
    ELSE [store |-> st, modified_count |-> 0]

CountOnly_delete_one(st, oid) ==
    [store |-> st, deleted_count |-> IF HasId(st, oid) THEN 1 ELSE 0]

\* db[COLLECTION].delete_one({"_id": oid})
delete_one(st, oid) ==
    IF HasId(st, oid)
    THEN [store |-> SelectSeq(st, LAMBDA d : d.id # oid), deleted_count |-> 1]
    ELSE [store |-> st, deleted_count |-> 0]

\* database.create_document: stamps the document and inserts it; the store
\* assigns the id, which is returned as a string
create_document(st, nid, now, item) ==
    [store |-> Append(st, [id |-> nid,
                           phone |-> item.phone,
                           country |-> item.country,
                           status |-> item.status,
                           note |-> item.note,
                           created_at |-> now,
                           updated_at |-> now]),
     nextId |-> nid + 1,
     new_id |-> OidStr(nid)]

Min(a, b) == IF a <= b THEN a ELSE b

\* database.get_documents: the matching documents in natural order, cut to
\* the first `limit`
get_documents(st, flt, limit) ==
    LET docs == Find(st, flt)
    IN SubSeq(docs, 1, Min(limit, Len(docs)))

(***************************************************************************)
(* The handlers, on a collection st.  Each gives the collection after the  *)
(* request and the response.  `fault` says that the write of the request   *)
(* raises in the store (a driver or network error) before it is applied;   *)
(* no handler but the bulk loop catches it.  A read raises when the store  *)
(* refuses the filter.                                                     *)
(***************************************************************************)
Outcome(st, nid, resp) == [store |-> st, nextId |-> nid, resp |-> resp]

\* limit: Optional[int] = Query(500, ge=1, le=5000)
LimitValid(limit) ==
    limit = Absent \/ (Get(limit) >= MinLimit /\ Get(limit) <= MaxLimit)

LimitOf(limit) == IF limit = Absent THEN DefaultLimit ELSE Get(limit)

\* d["id"] = str(d.pop("_id", ""))
IdsOf(docs) == [i \in 1..Len(docs) |-> OidStr(docs[i].id)]

\* GET /phones
list_phones(st, status, q, limit) ==
    IF ~LimitValid(limit) THEN Outcome(st, nextId, Unprocessable("list"))
    ELSE IF ~db THEN Outcome(st, nextId, DbUnavailable("list"))
    ELSE LET flt == BuildFilter(status, q)
         IN IF FilterRaises(flt) THEN Outcome(st, nextId, Unhandled("list", 1))
            ELSE LET docs == get_documents(st, flt, LimitOf(limit))
                 IN Outcome(st, nextId,
                            Resp("list", 200, "", Len(docs), IdsOf(docs), 1))

SkipInvalid_add_phone(st, nid, raw, fault) ==
    IF ~PhoneInValid(raw) THEN Outcome(st, nid, Unprocessable("create"))
    ELSE IF ~db THEN Outcome(st, nid, DbUnavailable("create"))
    ELSE LET item == PhoneIn(raw)
         IN IF ~PhoneNumberSchema(item) \/ fault
            THEN Outcome(st, nid, Resp("create", 200, "", 0, <<>>, 0))
            ELSE LET c == create_document(st, nid, clock, item)
                 IN Outcome(c.store, c.nextId,
                            Resp("create", 200, "", 1, <<c.new_id>>, 1))

\* POST /phones
add_phone(st, nid, raw, fault) ==
    IF ~PhoneInValid(raw) THEN Outcome(st, nid, Unprocessable("create"))
    ELSE IF ~db THEN Outcome(st, nid, DbUnavailable("create"))
    ELSE LET item == PhoneIn(raw)
         IN IF ~PhoneNumberSchema(item) THEN Outcome(st, nid, Unhandled("create", 0))
            ELSE IF fault THEN Outcome(st, nid, Unhandled("create", 1))
            ELSE LET c == create_document(st, nid, clock, item)
                 IN Outcome(c.store, c.nextId,
                            Resp("create", 200, "", 1, <<c.new_id>>, 1))

RECURSIVE BreakOnFailure_BulkLoop(_, _, _, _)
BreakOnFailure_BulkLoop(items, faults, i, acc) ==
    IF i > Len(items) THEN acc
    ELSE IF ~PhoneNumberSchema(items[i]) THEN acc
    ELSE IF faults[i] THEN [acc EXCEPT !.calls = @ + 1]
    ELSE LET c == create_document(acc.store, acc.nextId, clock, items[i])
         IN BreakOnFailure_BulkLoop(items, faults, i + 1,
                     [store |-> c.store,
                      nextId |-> c.nextId,
                      inserted |-> Append(acc.inserted, c.new_id),
                      calls |-> acc.calls + 1])

\* the loop of add_phones_bulk from item i on; acc is the collection, the
\* next id, the list `inserted` and the number of create_document calls so far
RECURSIVE BulkLoop(_, _, _, _)
BulkLoop(items, faults, i, acc) ==
    IF i > Len(items) THEN acc
    ELSE IF ~PhoneNumberSchema(items[i])
    THEN BulkLoop(items, faults, i + 1, acc)
    ELSE IF faults[i]
    THEN BulkLoop(items, faults, i + 1, [acc EXCEPT !.calls = @ + 1])
    ELSE LET c == create_document(acc.store, acc.nextId, clock, items[i])
         IN BulkLoop(items, faults, i + 1,
                     [store |-> c.store,
                      nextId |-> c.nextId,
                      inserted |-> Append(acc.inserted, c.new_id),
                      calls |-> acc.calls + 1])

\* POST /phones/bulk
add_phones_bulk(st, nid, raws, faults) ==
    IF ~BulkPhonesValid(raws) THEN Outcome(st, nid, Unprocessable("bulk"))
    ELSE IF ~db THEN Outcome(st, nid, DbUnavailable("bulk"))
    ELSE LET r == BulkLoop(BulkPhones(raws), faults, 1,
                           [store |-> st, nextId |-> nid,
                            inserted |-> <<>>, calls |-> 0])
         IN Outcome(r.store, r.nextId,
                    Resp("bulk", 200, "", Len(r.inserted), r.inserted, r.calls))

KeepNone_model_dump_exclude_none(data) ==
    [k \in Fields |-> data[k]]

\* data.model_dump(exclude_none=True): the keys whose value is not None
model_dump_exclude_none(data) ==
    [k \in Fields |-> IF IsVal(data[k]) THEN data[k] ELSE Absent]

NeverEmpty_IsEmptyDoc(update_doc) == FALSE

\* not update_doc
IsEmptyDoc(update_doc) == \A k \in Fields : update_doc[k] = Absent

\* update_doc["updated_at"] = datetime.now(timezone.utc)
WithUpdatedAt(update_doc, now) ==
    [k \in Fields \cup {"updated_at"} |->
        IF k = "updated_at" THEN Val(now) ELSE update_doc[k]]

IdFirst_update_phone(st, item_id, raw, fault) ==
    IF ~PhoneUpdateValid(raw) THEN Outcome(st, nextId, Unprocessable("update"))
    ELSE IF ~ObjectIdParses(item_id) THEN Outcome(st, nextId, InvalidId("update"))
    ELSE IF ~db THEN Outcome(st, nextId, DbUnavailable("update"))
    ELSE IF ~bson THEN Outcome(st, nextId, ObjectIdUnavailable("update"))
    ELSE LET update_doc == model_dump_exclude_none(PhoneUpdate(raw))
         IN IF IsEmptyDoc(update_doc)
            THEN Outcome(st, nextId, Resp("update", 200, "", 0, <<>>, 0))
            ELSE IF fault THEN Outcome(st, nextId, Unhandled("update", 1))
            ELSE LET res == update_one(st, ObjectIdOf(item_id),
                                       WithUpdatedAt(update_doc, clock))
                 IN Outcome(res.store, nextId,
                            Resp("update", 200, "", res.modified_count, <<>>, 1))

\* PATCH /phones/{item_id}
update_phone(st, item_id, raw, fault) ==
    IF ~PhoneUpdateValid(raw) THEN Outcome(st, nextId, Unprocessable("update"))
    ELSE IF ~db THEN Outcome(st, nextId, DbUnavailable("update"))
    ELSE IF ~bson THEN Outcome(st, nextId, ObjectIdUnavailable("update"))
    ELSE IF ~ObjectIdParses(item_id) THEN Outcome(st, nextId, InvalidId("update"))
    ELSE LET update_doc == model_dump_exclude_none(PhoneUpdate(raw))
         IN IF IsEmptyDoc(update_doc)
            THEN Outcome(st, nextId, Resp("update", 200, "", 0, <<>>, 0))
            ELSE IF fault THEN Outcome(st, nextId, Unhandled("update", 1))
            ELSE LET res == update_one(st, ObjectIdOf(item_id),
                                       WithUpdatedAt(update_doc, clock))
                 IN Outcome(res.store, nextId,
                            Resp("update", 200, "", res.modified_count, <<>>, 1))

\* DELETE /phones/{item_id}
delete_phone(st, item_id, fault) ==
    IF ~db THEN Outcome(st, nextId, DbUnavailable("delete"))
    ELSE IF ~bson THEN Outcome(st, nextId, ObjectIdUnavailable("delete"))
    ELSE IF ~ObjectIdParses(item_id) THEN Outcome(st, nextId, InvalidId("delete"))
    ELSE IF fault THEN Outcome(st, nextId, Unhandled("delete", 1))
    ELSE LET res == delete_one(st, ObjectIdOf(item_id))
         IN Outcome(res.store, nextId,
                    Resp("delete", 200, "", res.deleted_count, <<>>, 1))

\* GET /phones/export: one CSV row per matching document, no limit
export_phones(st, status, q) ==
    IF ~db THEN Outcome(st, nextId, DbUnavailable("export"))
    ELSE LET flt == BuildFilter(status, q)
         IN IF FilterRaises(flt) THEN Outcome(st, nextId, Unhandled("export", 1))
            ELSE LET rows == Find(st, flt)
                 IN Outcome(st, nextId, Resp("export", 200, "", Len(rows), <<>>, 1))

(***************************************************************************)
(* The requests the clients send.                                          *)
(***************************************************************************)
Item(p, c, s, n) == [phone |-> p, country |-> c, status |-> s, note |-> n]

\* bodies of POST /phones: two that pass both validations, one with an empty
\* phone, and three that do not parse as PhoneIn
RawItems ==
    {Item(Val(P55), Absent, Absent, Absent),
     Item(Val(PPlus), Val(CountryU), Val("has_fb"), Val(NoteU5)),
     Item(Val(PEmpty), Absent, Val("no_fb"), Absent),
     Item(Val(P55), Absent, Val("bogus"), Absent),
     Item(Val(P55), Absent, Null, Absent),
     Item(Absent, Absent, Absent, Absent)}

BulkItems ==
    {Item(Val(P55), Absent, Absent, Absent),
     Item(Val(PEmpty), Absent, Val("no_fb"), Absent),
     Item(Val(P55), Absent, Val("bogus"), Absent)}

BulkPayloads ==
    UNION {[1..n -> BulkItems] : n \in 0..MaxBulk}

\* bodies of PATCH /phones/{id}
RawPatches ==
    {Item(Absent, Absent, Absent, Absent),
     Item(Null, Null, Null, Null),
     Item(Absent, Absent, Val("bogus"), Absent),
     Item(Val(PPlus), Absent, Absent, Null),
     Item(Absent, Val(CountryU), Val("review"), Absent),
     Item(Absent, Null, Val("no_fb"), Absent)}

ItemIds == {OidStr(n) : n \in 1..MaxId} \cup {MalformedId}

StatusParams ==
    {Absent, Val(""), Val("unknown"), Val("has_fb")}

Queries ==
    {Absent, Val(<<>>), Val(<<"5">>), Val(<<"u">>), Val(<<"+", "1">>)}

Limits ==
    {Absent, Val(MinLimit - 1), Val(MinLimit), Val(MaxLimit + 1)}

(***************************************************************************)
(* The state machine.                                                      *)
(***************************************************************************)
NoResp == Resp("none", 0, "", 0, <<>>, 0)

\* The store handle is established at start-up or never; a handle is a
\* pymongo database, and pymongo ships bson, so ObjectId is there whenever
\* the handle is.  The collection starts empty.
Init ==
    /\ db \in BOOLEAN
    /\ bson \in BOOLEAN
    /\ db => bson
    /\ store = <<>>
    /\ nextId = 1
    /\ clock = 0
    /\ last = NoResp

\* A request is served: the collection and the response are the handler's.
\* The guard keeps the ids the store hands out within MaxId.
ListPhones(status, q, limit) ==
    LET out == list_phones(store, status, q, limit)
    IN /\ store' = out.store
       /\ nextId' = out.nextId
       /\ last' = out.resp
       /\ UNCHANGED <<db, bson, clock>>

AddPhone(raw, fault) ==
    LET out == add_phone(store, nextId, raw, fault)
    IN /\ out.nextId <= MaxId + 1
       /\ store' = out.store
       /\ nextId' = out.nextId
       /\ last' = out.resp
       /\ UNCHANGED <<db, bson, clock>>

AddPhonesBulk(raws, faults) ==
    LET out == add_phones_bulk(store, nextId, raws, faults)
    IN /\ out.nextId <= MaxId + 1
       /\ store' = out.store
       /\ nextId' = out.nextId
       /\ last' = out.resp
       /\ UNCHANGED <<db, bson, clock>>

UpdatePhone(item_id, raw, fault) ==
    LET out == update_phone(store, item_id, raw, fault)
    IN /\ store' = out.store
       /\ nextId' = out.nextId
       /\ last' = out.resp
       /\ UNCHANGED <<db, bson, clock>>

DeletePhone(item_id, fault) ==
    LET out == delete_phone(store, item_id, fault)
    IN /\ store' = out.store
       /\ nextId' = out.nextId
       /\ last' = out.resp
       /\ UNCHANGED <<db, bson, clock>>

ExportPhones(status, q) ==
    LET out == export_phones(store, status, q)
    IN /\ store' = out.store
       /\ nextId' = out.nextId
       /\ last' = out.resp
       /\ UNCHANGED <<db, bson, clock>>

\* time passes between requests
Tick ==
    /\ clock < MaxClock
    /\ clock' = clock + 1
    /\ UNCHANGED <<db, bson, store, nextId, last>>

DoList == \E s \in StatusParams, q \in Queries, l \in Limits :
              ListPhones(s, q, l)
DoAdd == \E raw \in RawItems, f \in BOOLEAN : AddPhone(raw, f)
DoBulk == \E raws \in BulkPayloads :
              \E faults \in [1..Len(raws) -> BOOLEAN] : AddPhonesBulk(raws, faults)
DoUpdate == \E id \in ItemIds, raw \in RawPatches, f \in BOOLEAN :
                UpdatePhone(id, raw, f)
DoDelete == \E id \in ItemIds, f \in BOOLEAN : DeletePhone(id, f)
DoExport == \E s \in StatusParams, q \in Queries :
                ExportPhones(s, q)

Next ==
    \/ DoList
    \/ DoAdd
    \/ DoBulk
    \/ DoUpdate
    \/ DoDelete
    \/ DoExport
    \/ Tick

Spec == Init /\ [][Next]_vars

(***************************************************************************)
(* Properties.  A property of a handler is stated over every request of    *)
(* the request sets, in every reachable state: the handler's outcome on    *)
(* the current collection is what the action of that request installs.     *)
(***************************************************************************)
IdSet(st) == {st[i].id : i \in 1..Len(st)}
Others(st, oid) == SelectSeq(st, LAMBDA d : d.id # oid)
WellFormedIds == {id \in ItemIds : ObjectIdParses(id)}
EffectiveKeys(raw) == {k \in Fields : IsVal(raw[k])}

\* the items of a bulk payload that fail: the second validation, or the insert
FailedIdx(raws, faults) ==
    {i \in 1..Len(raws) : ~PhoneNumberSchema(PhoneIn(raws[i])) \/ faults[i]}
KeptIdx(raws, faults) == (1..Len(raws)) \ FailedIdx(raws, faults)
\* the index in the payload of the j-th item that does not fail
NthKept(raws, faults, j) ==
    CHOOSE i \in KeptIdx(raws, faults) :
        Cardinality({m \in KeptIdx(raws, faults) : m <= i}) = j

SameContent(d, item) ==
    /\ d.phone = item.phone
    /\ d.country = item.country
    /\ d.status = item.status
    /\ d.note = item.note

\* C1: with the store available, a bulk create of N items of which K fail the
\* schema validation or the insert answers count = N - K with N - K ids, and
\* the collection gains exactly the N - K items that did not fail, in payload
\* order, after the records it held (nothing is rolled back, the loop goes on
\* after a failure).
C1_BulkBestEffort ==
    \A raws \in BulkPayloads : \A faults \in [1..Len(raws) -> BOOLEAN] :
        (db /\ BulkPhonesValid(raws)) =>
            LET N == Len(raws)
                K == Cardinality(FailedIdx(raws, faults))
                o == add_phones_bulk(store, nextId, raws, faults)
                base == Len(store)
            IN /\ o.resp.code = 200
               /\ o.resp.n = N - K
               /\ Len(o.resp.ids) = N - K
               /\ Len(o.store) = base + N - K
               /\ SubSeq(o.store, 1, base) = store
               /\ \A j \in 1..(N - K) :
                     /\ OidStr(o.store[base + j].id) = o.resp.ids[j]
                     /\ o.store[base + j].id \notin IdSet(store)
                     /\ SameContent(o.store[base + j],
                                    PhoneIn(raws[NthKept(raws, faults, j)]))

\* C1 witness: a bulk request of two inserts, one of which raised, answered 1
C1_Witness ==
    /\ last.op = "bulk" /\ last.code = 200
    /\ last.n = 1 /\ last.calls = 2
    /\ Len(store) >= 1

\* C2: with the store available, an update with a well-formed id and no
\* non-null field answers {updated: 0} without a store operation and leaves
\* every record, updated_at included, as it was, whether or not the id exists.
C2_EmptyUpdateNoWrite ==
    \A id \in WellFormedIds, raw \in RawPatches, f \in BOOLEAN :
        (db /\ EffectiveKeys(raw) = {}) =>
            LET o == update_phone(store, id, raw, f)
            IN /\ o.resp = Resp("update", 200, "", 0, <<>>, 0)
               /\ o.store = store

\* C2 witness: {updated: 0} without a store call while a stored record is
\* older than the clock (a write would have changed its updated_at)
C2_Witness ==
    /\ last = Resp("update", 200, "", 0, <<>>, 0)
    /\ \E i \in 1..Len(store) : store[i].updated_at < clock

\* C3: with the store available, update and delete with a malformed id end in
\* a client error (400 Invalid id; 422 when the update body does not parse)
\* without a store operation and with the collection unchanged, while a
\* well-formed id that is not in the collection gets the 200 zero-count answer.
C3_MalformedIdClientError ==
    db =>
        /\ \A raw \in RawPatches, f \in BOOLEAN :
              LET o == update_phone(store, MalformedId, raw, f)
              IN /\ o.resp = IF PhoneUpdateValid(raw) THEN InvalidId("update")
                             ELSE Unprocessable("update")
                 /\ o.resp.code \in 400..499
                 /\ o.resp.calls = 0
                 /\ o.store = store
        /\ \A f \in BOOLEAN :
              LET o == delete_phone(store, MalformedId, f)
              IN /\ o.resp = InvalidId("delete")
                 /\ o.resp.code \in 400..499
                 /\ o.resp.calls = 0
                 /\ o.store = store
        /\ \A id \in WellFormedIds :
              ~HasId(store, ObjectIdOf(id)) =>
                  /\ delete_phone(store, id, FALSE).resp
                        = Resp("delete", 200, "", 0, <<>>, 1)
                  /\ \A raw \in RawPatches :
                        (PhoneUpdateValid(raw) /\ EffectiveKeys(raw) # {}) =>
                            update_phone(store, id, raw, FALSE).resp
                                = Resp("update", 200, "", 0, <<>>, 1)

\* C3 witness: an update answered 400 Invalid id while the collection holds records
C3_Witness ==
    /\ last = InvalidId("update")
    /\ Len(store) = 2

\* C4: every stored record's status is one of the four enumerated values.
C4_StatusEnumerated ==
    \A i \in 1..Len(store) :
        IsVal(store[i].status) /\ Get(store[i].status) \in Statuses

\* C4 witness: after an update, one record has the default status of a create
\* that omitted it and another a status only an update sets
C4_Witness ==
    /\ last.op = "update" /\ last.n = 1
    /\ \E i, j \in 1..Len(store) :
          /\ store[i].status = Val("no_fb")
          /\ store[j].status = Val(DefaultStatus)

\* C5: with the store available, a single create whose item parses as PhoneIn
\* but fails the second validation ends in a server error with no id and
\* nothing inserted, while a bulk create of that same item answers 200 with
\* count 0.
C5_SingleCreateHardFailure ==
    \A raw \in RawItems, f \in BOOLEAN :
        (db /\ PhoneInValid(raw) /\ ~PhoneNumberSchema(PhoneIn(raw))) =>
            LET o == add_phone(store, nextId, raw, f)
                b == add_phones_bulk(store, nextId, <<raw>>, <<f>>)
            IN /\ o.resp.code = 500
               /\ o.resp.ids = <<>>
               /\ o.store = store
               /\ o.nextId = nextId
               /\ b.resp = Resp("bulk", 200, "", 0, <<>>, 0)
               /\ b.store = store

\* C5 witness: a create ended in the unhandled server error before any insert
C5_Witness ==
    /\ db
    /\ last = Unhandled("create", 0)

\* the outcome is the store-unavailable error, and nothing was done
StoreUnavailable(o) ==
    /\ o.resp.code = 500
    /\ o.resp.detail = "Database not available"
    /\ o.resp.calls = 0
    /\ o.resp.ids = <<>>
    /\ o.store = store
    /\ o.nextId = nextId

\* C6: when the store handle was never established, every data endpoint
\* answers the store-unavailable server error to every request that parses,
\* a malformed id and an empty update included, and performs no store
\* operation.
C6_StoreUnavailable ==
    ~db =>
        /\ \A s \in StatusParams, q \in Queries, l \in Limits :
              LimitValid(l) => StoreUnavailable(list_phones(store, s, q, l))
        /\ \A raw \in RawItems, f \in BOOLEAN :
              PhoneInValid(raw) => StoreUnavailable(add_phone(store, nextId, raw, f))
        /\ \A raws \in BulkPayloads : \A faults \in [1..Len(raws) -> BOOLEAN] :
              BulkPhonesValid(raws) =>
                  StoreUnavailable(add_phones_bulk(store, nextId, raws, faults))
        /\ \A id \in ItemIds, raw \in RawPatches, f \in BOOLEAN :
              PhoneUpdateValid(raw) =>
                  StoreUnavailable(update_phone(store, id, raw, f))
        /\ \A id \in ItemIds, f \in BOOLEAN :
              StoreUnavailable(delete_phone(store, id, f))
        /\ \A s \in StatusParams, q \in Queries :
              StoreUnavailable(export_phones(store, s, q))

\* C6 witness: without a handle, an update was answered "Database not available"
C6_Witness ==
    /\ ~db
    /\ last = DbUnavailable("update")

\* q is a substring of s, character for character
IsSubstring(q, s) ==
    \E j \in 0..(Len(s) - Len(q)) : \A m \in 1..Len(q) : s[j + m] = q[m]

\* the record a successful single create has just inserted
Created == DocOf(store, ObjectIdOf(last.ids[1]))
JustCreated == last.op = "create" /\ last.code = 200

\* the list request filters by the created record's status, or searches for a
\* substring of its phone
FindsCreated(s, q) ==
    \/ s = Created.status /\ q = Absent
    \/ s = Absent /\ IsVal(q) /\ IsSubstring(Get(q), Get(Created.phone))

\* the query has no character the regular-expression syntax gives a meaning
LiteralQuery(q) == q = Absent \/ "+" \notin Range(Get(q))

\* C7: a list request served right after a single create, with the record's
\* status as filter or a substring of its phone as query, returns the new
\* id, for any prior contents and any allowed limit.
C7_Claimed_FoundForAnyLimit ==
    [][JustCreated =>
        \A s \in StatusParams, q \in Queries, l \in Limits :
            (LimitValid(l) /\ FindsCreated(s, q) /\ ListPhones(s, q, l)) =>
                last.ids[1] \in Range(last'.ids)]_vars

\* What does hold of the code next to C7: right after a single create, a list
\* request with the record's status as filter, or with a query that is a
\* substring of its phone and has no regular-expression metacharacter,
\* returns the new id whenever at most `limit` stored records match the
\* filter.
FoundWithinLimit ==
    JustCreated =>
        \A s \in StatusParams, q \in Queries, l \in Limits :
            (/\ LimitValid(l)
             /\ FindsCreated(s, q)
             /\ LiteralQuery(q)
             /\ Len(Find(store, BuildFilter(s, q))) <= LimitOf(l)) =>
                LET o == list_phones(store, s, q, l)
                IN /\ o.resp.code = 200
                   /\ last.ids[1] \in Range(o.resp.ids)

\* a single create has just succeeded on a collection that held a record with
\* the same phone and status
CreatedBesideAMatch ==
    /\ JustCreated
    /\ Len(store) = 2
    /\ store[1].phone = store[2].phone
    /\ store[1].status = store[2].status

\* C8: with the store available and the delete not raising, deleting a
\* well-formed id that is not stored answers {deleted: 0} and changes
\* nothing; deleting a stored id answers {deleted: 1}, removes that record,
\* and a second delete of the id answers {deleted: 0}.
C8_DeleteCounts ==
    db =>
        \A id \in WellFormedIds :
            LET oid == ObjectIdOf(id)
                o == delete_phone(store, id, FALSE)
            IN IF HasId(store, oid)
               THEN /\ o.resp = Resp("delete", 200, "", 1, <<>>, 1)
                    /\ ~HasId(o.store, oid)
                    /\ Len(o.store) = Len(store) - 1
                    /\ delete_phone(o.store, id, FALSE).resp
                          = Resp("delete", 200, "", 0, <<>>, 1)
               ELSE /\ o.resp = Resp("delete", 200, "", 0, <<>>, 1)
                    /\ o.store = store

\* C8 witness: a delete answered {deleted: 1} and one record remains
C8_Witness ==
    /\ last = Resp("delete", 200, "", 1, <<>>, 1)
    /\ Len(store) = 1

\* C9: with the store available and the write not raising, an update of a
\* stored record with at least one non-null field sets exactly those fields to
\* the given values and updated_at to the current time in one store
\* operation; the other fields, the id and created_at keep their values.
C9_PartialUpdate ==
    db =>
        \A id \in WellFormedIds, raw \in RawPatches :
            (/\ HasId(store, ObjectIdOf(id))
             /\ PhoneUpdateValid(raw)
             /\ EffectiveKeys(raw) # {}) =>
                LET oid == ObjectIdOf(id)
                    o == update_phone(store, id, raw, FALSE)
                    old == DocOf(store, oid)
                    new == DocOf(o.store, oid)
                IN /\ o.resp.code = 200
                   /\ o.resp.calls = 1
                   /\ HasId(o.store, oid)
                   /\ \A k \in Fields :
                         new[k] = IF k \in EffectiveKeys(raw) THEN raw[k] ELSE old[k]
                   /\ new.updated_at = clock
                   /\ new.id = old.id
                   /\ new.created_at = old.created_at
                   /\ IndexOf(o.store, oid) = IndexOf(store, oid)

\* C9 witness: an update modified a record created earlier, which keeps a
\* note and a country the update did not supply
C9_Witness ==
    /\ last = Resp("update", 200, "", 1, <<>>, 1)
    /\ \E i \in 1..Len(store) :
          /\ store[i].updated_at > store[i].created_at
          /\ store[i].status = Val("no_fb")
          /\ store[i].note = Val(NoteU5)
          /\ store[i].country = Val(CountryU)

\* C10: an update or a delete addressed to an id leaves every record with
\* another id in place and unchanged; an update never adds or removes a
\* record (no upsert), a delete never adds one; list and export leave the
\* collection as it is.
C10_OnlyTheAddressedRecord ==
    /\ \A id \in ItemIds, raw \in RawPatches, f \in BOOLEAN :
          LET o == update_phone(store, id, raw, f)
          IN /\ IdsOf(o.store) = IdsOf(store)
             /\ o.nextId = nextId
             /\ IF ObjectIdParses(id)
                THEN Others(o.store, ObjectIdOf(id)) = Others(store, ObjectIdOf(id))
                ELSE o.store = store
    /\ \A id \in ItemIds, f \in BOOLEAN :
          LET o == delete_phone(store, id, f)
          IN /\ o.nextId = nextId
             /\ IF ObjectIdParses(id)
                THEN Others(o.store, ObjectIdOf(id)) = Others(store, ObjectIdOf(id))
                ELSE o.store = store
    /\ \A s \in StatusParams, q \in Queries :
          /\ export_phones(store, s, q).store = store
          /\ \A l \in Limits : list_phones(store, s, q, l).store = store

\* C10 witness: an update modified one of two records and the other still
\* carries the time of its creation
C10_Witness ==
    /\ last = Resp("update", 200, "", 1, <<>>, 1)
    /\ Len(store) = 2
    /\ \E i, j \in 1..2 :
          /\ store[i].updated_at = clock
          /\ store[j].updated_at < clock
          /\ store[j].updated_at = store[j].created_at

====
